---- MODULE Spec2Model ----
(***************************************************************************)
(* Model of package respwriter: the request-scoped decorator RespWriter    *)
(* around a dns.ResponseWriter, the factory NewHandlerFunc and its adapter *)
(* closure, and the functional options.                                    *)
(*                                                                         *)
(* A session is one decorator together with its request context: it is     *)
(* created either by one invocation of the adapter returned by             *)
(* NewHandlerFunc, or by a direct call of NewRespWriter (as the tests do). *)
(* The three gated methods are a select on requestCtx.Done() followed, in  *)
(* the default branch, by the call on the underlying writer; these are two *)
(* steps, so that the context may terminate in between.                    *)
(***************************************************************************)
EXTENDS Integers, Sequences, FiniteSets, TLC

\* ---- bounds ----
\* NumReqs sessions, MaxCalls calls on decorators in all, ages counted up to
\* MaxAge (beyond the largest timeout), buffers of at most MaxBufLen bytes
NumReqs == 1
MaxAge == 3
MaxCalls == 1
MaxBufLen == 1
\* option lists of at most MaxOpts entries
MaxOpts == 2

Reqs == 1..NumReqs
\* one underlying writer per session (the server builds a fresh one per request)
Writers == Reqs

\* ---- Go values held in an interface ----
\* kind is the reflect.Kind of the dynamic type ("nil" for the nil interface),
\* isnil tells whether a pointer/func value is nil, ref names the object.
NilRef == 0
NilInterface == [kind |-> "nil", isnil |-> TRUE, ref |-> NilRef]
NilPtr == [kind |-> "Ptr", isnil |-> TRUE, ref |-> NilRef]
NilFunc == [kind |-> "Func", isnil |-> TRUE, ref |-> NilRef]
PtrTo(r) == [kind |-> "Ptr", isnil |-> FALSE, ref |-> r]
StructVal(r) == [kind |-> "Struct", isnil |-> FALSE, ref |-> r]
FuncVal(r) == [kind |-> "Func", isnil |-> FALSE, ref |-> r]

NilableKinds == {"Ptr", "Map", "Chan", "Slice", "Func"}

\* variant: only the comparison with nil, without the reflection on the kind
isNil_InterfaceOnly(i) == i = NilInterface

isNil(i) ==
    IF i = NilInterface THEN TRUE
    ELSE IF i.kind \in NilableKinds THEN i.isnil
    ELSE FALSE

\* ---- loggers and options ----
NilLogger == "nil"
Loggers == {"l1", "l2"}
LoggerAny(l) == IF l = NilLogger THEN NilPtr ELSE PtrTo(1)

NilOption == [isopt |-> FALSE, l |-> NilLogger]
WithLogger(l) == [isopt |-> TRUE, l |-> l]

\* the Option values a caller can pass, and the variadic lists of them
Options == {NilOption, WithLogger(NilLogger)} \cup {WithLogger(l) : l \in Loggers}
OptSeqs == UNION {[1..n -> Options] : n \in 0..MaxOpts}

\* variant: a nil logger clears the logger
ApplyOption_NilClears(o, opts) == [opts EXCEPT !.withLogger = o.l]

\* the closure returned by WithLogger, applied to *generalOptions
ApplyOption(o, opts) ==
    IF ~isNil(LoggerAny(o.l)) THEN [opts EXCEPT !.withLogger = o.l] ELSE opts

generalDefaults == [withLogger |-> NilLogger]

RECURSIVE applyOpts(_, _)
applyOpts(opts, opt) ==
    IF opt = <<>> THEN opts
    ELSE IF Head(opt) = NilOption THEN applyOpts(opts, Tail(opt))
    ELSE applyOpts(ApplyOption(Head(opt), opts), Tail(opt))

getGeneralOpts(opt) == applyOpts(generalDefaults, opt)

\* ---- contexts ----
NoErr == "nil"
Canceled == "context.Canceled"
DeadlineExceeded == "context.DeadlineExceeded"
ErrInvalidParameter == "ErrInvalidParameter"
ErrUnderlying == "errUnderlying"

\* the deadline timer of a context: none, running with some time left, fired,
\* or stopped before it fired
NoTimer == [state |-> "none", left |-> 0]
Running(d) == [state |-> "running", left |-> d]
Fired == [state |-> "fired", left |-> 0]
Stopped == [state |-> "stopped", left |-> 0]

\* a context object: err is what Err() returns (Done() is closed iff err # nil)
NoCtx == [err |-> NoErr, timer |-> NoTimer, cancellable |-> FALSE]
Background == [err |-> NoErr, timer |-> NoTimer, cancellable |-> FALSE]
WithCancel == [err |-> NoErr, timer |-> NoTimer, cancellable |-> TRUE]
WithTimeout(d) ==
    IF d <= 0
    THEN [err |-> DeadlineExceeded, timer |-> Fired, cancellable |-> TRUE]
    ELSE [err |-> NoErr, timer |-> Running(d), cancellable |-> TRUE]

\* variant: the latest termination wins
cancel_LastWins(c) ==
    IF c.cancellable
    THEN [c EXCEPT !.err = Canceled,
                   !.timer = IF @.state = "running" THEN Stopped ELSE @]
    ELSE c

\* the CancelFunc: the first termination wins; a running timer is stopped
cancel(c) ==
    IF c.cancellable /\ c.err = NoErr
    THEN [c EXCEPT !.err = Canceled,
                   !.timer = IF @.state = "running" THEN Stopped ELSE @]
    ELSE c

\* one unit of time passes for a context: its timer fires when it runs out
expire(c) ==
    IF c.err = NoErr /\ c.timer.state = "running"
    THEN IF c.timer.left <= 1
         THEN [c EXCEPT !.err = DeadlineExceeded, !.timer = Fired]
         ELSE [c EXCEPT !.timer = Running(@.left - 1)]
    ELSE c

\* variant: a select that only sees an explicit cancellation
Done_OnlyCancel(c) == c.err = Canceled

Done(c) == c.err # NoErr

\* variant: a fixed error in place of requestCtx.Err()
DoneErr_AlwaysCanceled(c) == Canceled

\* requestCtx.Err() as the gated methods return it
DoneErr(c) == c.err

\* ---- the underlying dns.ResponseWriter (external collaborator) ----
GatedOps == {"WriteMsg", "Write", "TsigStatus"}
UngatedOps == {"RemoteAddr", "LocalAddr", "TsigTimersOnly", "Hijack", "Close"}
Msgs == {"m1", "m2"}
NoMsg == "none"
Bufs == UNION {[1..n -> {7}] : n \in 0..MaxBufLen}
UnderlyingErrs == {NoErr, ErrUnderlying}
NoAddr == <<"none", NilRef>>
remoteAddrOf(w) == <<"remote", w>>
localAddrOf(w) == <<"local", w>>

\* one call: the method, its arguments and what it returned
NoCall == [seq |-> 0, op |-> "none", msg |-> NoMsg, buf |-> <<>>, flag |-> FALSE,
           logger |-> NilLogger, stage |-> "returned", n |-> 0, err |-> NoErr,
           addr |-> NoAddr]

\* what the underlying writer w answers to a call (e is the error it chooses)
underlyingResult(w, op, buf, e) ==
    [n |-> IF op = "Write" /\ e = NoErr THEN Len(buf) ELSE 0,
     err |-> IF op \in {"WriteMsg", "Write", "TsigStatus", "Close"} THEN e ELSE NoErr,
     addr |-> IF op = "RemoteAddr" THEN remoteAddrOf(w)
              ELSE IF op = "LocalAddr" THEN localAddrOf(w) ELSE NoAddr]

\* what an underlying writer has received: how many calls, and the last one
NoEntry == [op |-> "none", msg |-> NoMsg, buf |-> <<>>, flag |-> FALSE,
            n |-> 0, err |-> NoErr, addr |-> NoAddr]
NoLog == [calls |-> 0, last |-> NoEntry]
Received(l, e) == [calls |-> l.calls + 1, last |-> e]

\* ---- state ----
VARIABLES
    age,      \* per session: for how long the adapter invocation in progress has
              \* been running (counted up to MaxAge; 0 when none is in progress)
    factory,  \* what NewHandlerFunc returned
    pc,       \* per session: idle, running (inner handler executing), done,
              \* panicked, direct (decorator built by a direct NewRespWriter call)
    args,     \* per session: the ctx and w arguments of the NewRespWriter call
    ctx,      \* per session: the request context object
    rw,       \* per session: the RespWriter
    call,     \* per session: the latest call made on the RespWriter
    hcalls,   \* per session: number of invocations of the inner handler
    wlog,     \* per writer: the calls the underlying writer received
    budget,   \* how many calls on decorators a behaviour may contain in all
    seen      \* per session: the first termination error a gated method of the
              \* decorator returned, and which call returned it

vars == <<age, factory, pc, args, ctx, rw, call, hcalls, wlog, budget, seen>>

\* the sessions of a behaviour
Sessions == DOMAIN pc

NoFactory == [called |-> FALSE, requestTimeout |-> 0, h |-> NilInterface, opt |-> <<>>,
              adapter |-> FALSE, err |-> NoErr, msg |-> ""]
NoArgs == [ctx |-> NilInterface, w |-> NilInterface, opt |-> <<>>]
NoRW == [alloc |-> FALSE, underlying |-> NilInterface, requestCtx |-> NilInterface,
         logger |-> NilLogger]

NoneSeen == [err |-> NoErr, seq |-> 0]

\* nothing is built yet: S are the sessions to come, b the calls to explore
InitWith(S, b) ==
    /\ age = [s \in S |-> 0]
    /\ factory = NoFactory
    /\ pc = [s \in S |-> "idle"]
    /\ args = [s \in S |-> NoArgs]
    /\ ctx = [s \in S |-> NoCtx]
    /\ rw = [s \in S |-> NoRW]
    /\ call = [s \in S |-> NoCall]
    /\ hcalls = [s \in S |-> 0]
    /\ wlog = [w \in S |-> NoLog]
    /\ budget = b
    /\ seen = [s \in S |-> NoneSeen]

Init == InitWith(Reqs, MaxCalls)

\* ---- NewHandlerFunc ----
Timeouts == {-1, 0, 1, 2}
Handlers == {NilInterface, NilFunc, FuncVal(1)}

\* variant: requestTimeout < 0 in place of requestTimeout <= 0
NewHandlerFuncResult_AcceptsZero(requestTimeout, h) ==
    IF requestTimeout < 0
    THEN [adapter |-> FALSE, err |-> ErrInvalidParameter, msg |-> "invalid request timeout"]
    ELSE IF isNil(h)
    THEN [adapter |-> FALSE, err |-> ErrInvalidParameter, msg |-> "nil handler"]
    ELSE [adapter |-> TRUE, err |-> NoErr, msg |-> ""]

\* what NewHandlerFunc returns: whether there is an adapter, and the error
NewHandlerFuncResult(requestTimeout, h) ==
    IF requestTimeout <= 0
    THEN [adapter |-> FALSE, err |-> ErrInvalidParameter, msg |-> "invalid request timeout"]
    ELSE IF isNil(h)
    THEN [adapter |-> FALSE, err |-> ErrInvalidParameter, msg |-> "nil handler"]
    ELSE [adapter |-> TRUE, err |-> NoErr, msg |-> ""]

\* factory keeps the arguments of the call (the adapter closes over them)
NewHandlerFunc(requestTimeout, h, opt) ==
    /\ ~factory.called
    /\ LET r == NewHandlerFuncResult(requestTimeout, h)
       IN factory' = [called |-> TRUE, requestTimeout |-> requestTimeout, h |-> h,
                      opt |-> opt, adapter |-> r.adapter, err |-> r.err, msg |-> r.msg]
    /\ UNCHANGED <<age, pc, args, ctx, rw, call, hcalls, wlog, budget, seen>>

\* ---- NewRespWriter ----
\* variant: the options are not applied
NewRespWriter_IgnoresOptions(c, w, opt) ==
    IF isNil(c) THEN [panic |-> "nil context", rw |-> NoRW]
    ELSE IF isNil(w) THEN [panic |-> "nil dns.ResponseWriter", rw |-> NoRW]
    ELSE [panic |-> "",
          rw |-> [alloc |-> TRUE, underlying |-> w, requestCtx |-> c,
                  logger |-> generalDefaults.withLogger]]

NewRespWriter(c, w, opt) ==
    IF isNil(c) THEN [panic |-> "nil context", rw |-> NoRW]
    ELSE IF isNil(w) THEN [panic |-> "nil dns.ResponseWriter", rw |-> NoRW]
    ELSE [panic |-> "",
          rw |-> [alloc |-> TRUE, underlying |-> w, requestCtx |-> c,
                  logger |-> getGeneralOpts(opt).withLogger]]

WriterArgs(s) == {NilInterface, NilPtr, PtrTo(s)}
\* the writers the server hands to the adapter, and the options of the factory
TransportWriters(s) == {NilPtr, PtrTo(s)}
FactoryOpts == {<<>>, <<WithLogger("l1")>>}

\* variant: context.WithCancel in place of context.WithTimeout
AdapterCtx_NoDeadline(requestTimeout) == WithCancel

\* the adapter closure: WithTimeout, defer cancel, NewRespWriter, call h
AdapterCtx(requestTimeout) == WithTimeout(requestTimeout)

\* variant: one context object shared by all invocations
AdapterCtxRef_Shared(s) == CHOOSE r \in Reqs : \A q \in Reqs : r <= q

\* the context object of invocation s: the closure makes its own on every call
AdapterCtxRef(s) == s

AdapterInvoke(s, w) ==
    /\ factory.adapter
    /\ pc[s] = "idle"
    /\ LET c == AdapterCtx(factory.requestTimeout)
           k == AdapterCtxRef(s)
           r == NewRespWriter(PtrTo(k), w, factory.opt)
       IN /\ args' = [args EXCEPT ![s] = [ctx |-> PtrTo(k), w |-> w, opt |-> factory.opt]]
          /\ IF r.panic # ""
             THEN /\ ctx' = [ctx EXCEPT ![k] = cancel(c)]
                  /\ pc' = [pc EXCEPT ![s] = "panicked"]
                  /\ UNCHANGED <<rw, hcalls, budget, seen>>
             ELSE /\ ctx' = [ctx EXCEPT ![k] = c]
                  /\ rw' = [rw EXCEPT ![s] = r.rw]
                  /\ pc' = [pc EXCEPT ![s] = "running"]
                  /\ hcalls' = [hcalls EXCEPT ![s] = @ + 1]
    /\ UNCHANGED <<age, factory, call, wlog, budget, seen>>

\* variant: no deferred cancel
AdapterExit_NoCancel(c) == c

\* the inner handler returns (the calls it made have returned): the deferred
\* cancel runs
AdapterExit(c) == cancel(c)

HandlerReturn(s) ==
    /\ pc[s] = "running"
    /\ call[s].stage = "returned"
    /\ pc' = [pc EXCEPT ![s] = "done"]
    /\ ctx' = [ctx EXCEPT ![AdapterCtxRef(s)] = AdapterExit(@)]
    /\ age' = [age EXCEPT ![s] = 0]
    /\ UNCHANGED <<factory, args, rw, call, hcalls, wlog, budget, seen>>

\* the inner handler panics: the deferred cancel runs while unwinding
HandlerPanic(s) ==
    /\ pc[s] = "running"
    /\ call[s].stage = "returned"
    /\ pc' = [pc EXCEPT ![s] = "panicked"]
    /\ ctx' = [ctx EXCEPT ![AdapterCtxRef(s)] = AdapterExit(@)]
    /\ age' = [age EXCEPT ![s] = 0]
    /\ UNCHANGED <<factory, args, rw, call, hcalls, wlog, budget, seen>>

\* ---- NewRespWriter called directly (as the tests do) ----
\* the ctx argument: the interface value and the context object behind it
DirectCtxs(s) ==
    {[val |-> NilInterface, obj |-> NoCtx],
     [val |-> NilPtr, obj |-> NoCtx],
     [val |-> StructVal(s), obj |-> Background],
     [val |-> PtrTo(s), obj |-> WithCancel],
     [val |-> PtrTo(s), obj |-> cancel(WithCancel)],
     [val |-> PtrTo(s), obj |-> WithTimeout(1)]}

CallNewRespWriter(s, c, w, opt) ==
    /\ pc[s] = "idle"
    /\ LET r == NewRespWriter(c.val, w, opt)
       IN /\ args' = [args EXCEPT ![s] = [ctx |-> c.val, w |-> w, opt |-> opt]]
          /\ ctx' = [ctx EXCEPT ![s] = c.obj]
          /\ rw' = [rw EXCEPT ![s] = r.rw]
          /\ pc' = [pc EXCEPT ![s] = IF r.panic # "" THEN "panicked" ELSE "direct"]
    /\ UNCHANGED <<age, factory, call, hcalls, wlog, budget, seen>>

\* the owner of a directly built context calls its CancelFunc (it may do so
\* after the deadline, too)
Cancel(s) ==
    /\ pc[s] = "direct"
    /\ ctx[s].cancellable
    /\ ctx' = [ctx EXCEPT ![s] = cancel(ctx[s])]
    /\ UNCHANGED <<age, factory, pc, args, rw, call, hcalls, wlog, budget, seen>>

\* one unit of time passes: the adapter invocations in progress grow older and
\* the timers that run out fire (time matters only while a timer runs or the
\* age of an invocation is still counted)
Aging(s) == pc[s] = "running" /\ age[s] < MaxAge
Timed(s) == ctx[s].err = NoErr /\ ctx[s].timer.state = "running"

\* variant: the adapter returns when the deadline passes
WhileTimePasses_EndsAtDeadline(p, c) ==
    IF p = "running" /\ c.err = DeadlineExceeded THEN "done" ELSE p

\* h(wrappedWriter, r) is a plain call: the adapter waits for it whatever
\* becomes of the context c
WhileTimePasses(p, c) == p

Tick ==
    /\ \E s \in Sessions : Aging(s) \/ Timed(s)
    /\ age' = [s \in Sessions |-> IF Aging(s) THEN age[s] + 1 ELSE age[s]]
    /\ ctx' = [s \in Sessions |-> expire(ctx[s])]
    /\ pc' = [s \in Sessions |-> WhileTimePasses(pc[s], expire(ctx[s]))]
    /\ UNCHANGED <<factory, args, rw, call, hcalls, wlog, budget, seen>>

\* ---- RespWriter methods ----
requestCtx(s) == ctx[rw[s].requestCtx.ref]
underlying(s) == rw[s].underlying.ref

RECURSIVE SumSeq(_, _)
SumSeq(f, S) ==
    IF S = {} THEN 0
    ELSE LET x == CHOOSE y \in S : TRUE IN f[x].seq + SumSeq(f, S \ {x})

\* calls made so far on all decorators (budget bounds the behaviours explored)
TotalCalls == SumSeq(call, Sessions)

CanCall(s) ==
    /\ rw[s].alloc
    /\ call[s].stage = "returned"
    /\ TotalCalls < budget

\* variant: no select, the underlying writer is always called
Gate_AlwaysDefault(c) == "default"

\* the select statement: which branch runs
Gate(c) == IF Done(c) THEN "done" ELSE "default"

\* variants: a fresh message, a fixed flag
WriteMsgHanded_Fresh(msg) == NoMsg
TsigTimersOnlyHanded_Const(b) == TRUE

\* what each method hands to the underlying writer
WriteMsgHanded(msg) == msg
WriteHanded(b) == <<>>
TsigTimersOnlyHanded(b) == b

Entry(c) == [op |-> c.op, msg |-> c.msg, buf |-> c.buf, flag |-> c.flag,
             n |-> c.n, err |-> c.err, addr |-> c.addr]

Gated(s, op, msg, b) ==
    /\ CanCall(s)
    /\ LET c == requestCtx(s)
           fr == [NoCall EXCEPT !.seq = call[s].seq + 1, !.op = op, !.msg = msg, !.buf = b]
       IN call' = [call EXCEPT ![s] =
                     IF Gate(c) = "done"
                     THEN [fr EXCEPT !.err = DoneErr(c), !.n = 0]
                     ELSE [fr EXCEPT !.stage = "default"]]
          /\ seen' = [seen EXCEPT ![s] =
                        IF Gate(c) = "done" /\ @ = NoneSeen
                        THEN [err |-> DoneErr(c), seq |-> fr.seq] ELSE @]
    /\ UNCHANGED <<age, factory, pc, args, ctx, rw, hcalls, wlog, budget>>

WriteMsg(s, msg) == Gated(s, "WriteMsg", msg, <<>>)
Write(s, b) == Gated(s, "Write", NoMsg, b)
TsigStatus(s) == Gated(s, "TsigStatus", NoMsg, <<>>)

\* variant: the default branch closes the connection
Handed_Close(c) == [c EXCEPT !.op = "Close", !.msg = NoMsg, !.buf = <<>>]

\* the default branch: the call on the underlying writer and the return
Handed(c) ==
    [c EXCEPT !.msg = IF c.op = "WriteMsg" THEN WriteMsgHanded(c.msg) ELSE NoMsg,
              !.buf = IF c.op = "Write" THEN WriteHanded(c.buf) ELSE <<>>]

UnderlyingCall(s, e) ==
    /\ rw[s].alloc
    /\ call[s].stage = "default"
    /\ LET w == underlying(s)
           h == Handed(call[s])
           r == underlyingResult(w, h.op, h.buf, e)
       IN /\ wlog' = [wlog EXCEPT ![w] =
                        Received(@, Entry([h EXCEPT !.n = r.n, !.err = r.err, !.addr = r.addr]))]
          /\ call' = [call EXCEPT ![s] =
                        [@ EXCEPT !.stage = "returned", !.n = r.n, !.err = r.err]]
    /\ UNCHANGED <<age, factory, pc, args, ctx, rw, hcalls, budget, seen>>

\* the methods that are not gated: one call on the underlying writer
Ungated(s, op, flag, e) ==
    /\ CanCall(s)
    /\ LET w == underlying(s)
           r == underlyingResult(w, op, <<>>, e)
           fr == [NoCall EXCEPT !.seq = call[s].seq + 1, !.op = op, !.flag = flag,
                                !.n = r.n, !.err = r.err, !.addr = r.addr]
       IN /\ wlog' = [wlog EXCEPT ![w] =
                        Received(@, Entry([fr EXCEPT !.flag = TsigTimersOnlyHanded(flag)]))]
          /\ call' = [call EXCEPT ![s] = fr]
    /\ UNCHANGED <<age, factory, pc, args, ctx, rw, hcalls, budget, seen>>

RemoteAddr(s) == Ungated(s, "RemoteAddr", FALSE, NoErr)
LocalAddr(s) == Ungated(s, "LocalAddr", FALSE, NoErr)
TsigTimersOnly(s, b) == Ungated(s, "TsigTimersOnly", b, NoErr)
Hijack(s) == Ungated(s, "Hijack", FALSE, NoErr)
Close(s, e) == Ungated(s, "Close", FALSE, e)

\* the accessors: they read the fields and call nothing
Underlying(s) == rw[s].underlying
RequestContext(s) == rw[s].requestCtx
Logger(s) == rw[s].logger

\* the *slog.Logger values a caller passes
LoggerArgs == Loggers \cup {NilLogger}

\* variant: a nil logger is ignored, as WithLogger does
SetLoggerStored_KeepsOnNil(old, l) == IF l = NilLogger THEN old ELSE l

\* rw.logger = logger
SetLoggerStored(old, l) == l

SetLogger(s, l) ==
    /\ CanCall(s)
    /\ rw' = [rw EXCEPT ![s].logger = SetLoggerStored(@, l)]
    /\ call' = [call EXCEPT ![s] =
                  [NoCall EXCEPT !.seq = call[s].seq + 1, !.op = "SetLogger", !.logger = l]]
    /\ UNCHANGED <<age, factory, pc, args, ctx, hcalls, wlog, budget, seen>>

Methods ==
    \/ \E s \in Sessions, msg \in Msgs : WriteMsg(s, msg)
    \/ \E s \in Sessions, b \in Bufs : Write(s, b)
    \/ \E s \in Sessions : TsigStatus(s)
    \/ \E s \in Sessions, e \in UnderlyingErrs : UnderlyingCall(s, e)
    \/ \E s \in Sessions : RemoteAddr(s)
    \/ \E s \in Sessions : LocalAddr(s)
    \/ \E s \in Sessions, b \in BOOLEAN : TsigTimersOnly(s, b)
    \/ \E s \in Sessions : Hijack(s)
    \/ \E s \in Sessions, e \in UnderlyingErrs : Close(s, e)
    \/ \E s \in Sessions, l \in LoggerArgs : SetLogger(s, l)

\* a server: the factory, and requests served through its adapter
Next ==
    \/ \E t \in Timeouts, h \in Handlers, opt \in FactoryOpts : NewHandlerFunc(t, h, opt)
    \/ \E s \in Sessions : \E w \in TransportWriters(s) : AdapterInvoke(s, w)
    \/ \E s \in Sessions : HandlerReturn(s)
    \/ \E s \in Sessions : HandlerPanic(s)
    \/ Tick
    \/ Methods

Spec == Init /\ [][Next]_vars

\* decorators built by direct calls of NewRespWriter on contexts the caller owns
NextDirect ==
    \/ \E s \in Sessions, opt \in FactoryOpts :
         \E c \in DirectCtxs(s), w \in WriterArgs(s) : CallNewRespWriter(s, c, w, opt)
    \/ \E s \in Sessions : Cancel(s)
    \/ Tick
    \/ Methods

SpecDirect == Init /\ [][NextDirect]_vars

\* a single session
Alone == {1}

\* decorators built by direct calls of NewRespWriter with any list of options
NextOpts ==
    \/ \E s \in Sessions, opt \in OptSeqs :
         \E c \in DirectCtxs(s), w \in WriterArgs(s) : CallNewRespWriter(s, c, w, opt)
    \/ \E s \in Sessions : Cancel(s)
    \/ Tick
    \/ Methods

SpecOpts == InitWith(Alone, MaxCalls) /\ [][NextOpts]_vars

\* a server with one request, whose handler makes one call more than in Spec
SpecRepeat == InitWith(Alone, MaxCalls + 1) /\ [][Next]_vars

\* a server with two requests in flight at once
Overlapping == {1, 2}
SpecServe == InitWith(Overlapping, MaxCalls) /\ [][Next]_vars

\* ---- properties ----
\* a step in which a new call is made on the decorator of session s
Calls(s) == call'[s].seq # call[s].seq
\* a step in which the pending call of session s reaches the underlying writer
Completes(s) == call[s].stage = "default" /\ call'[s].stage = "returned"
\* a step that leaves every underlying writer alone
Untouched == wlog' = wlog
\* a step in which writer w receives exactly one call, of method op
ReceivesOne(w, op) ==
    /\ wlog'[w].calls = wlog[w].calls + 1
    /\ wlog'[w].last.op = op
    /\ \A v \in DOMAIN wlog \ {w} : wlog'[v] = wlog[v]
\* the object behind an interface value is absent
Absent(v) == v.ref = NilRef
\* the lifecycle of the decorator of session s has terminated
Terminated(s) == ctx[rw[s].requestCtx.ref].err # NoErr

\* C1: a WriteMsg, Write or TsigStatus called on a decorator whose request
\* context is already done returns the context's error and calls nothing on the
\* underlying writer; Write also returns a byte count of 0.
C1_DoneContextRejects ==
    [][\A s \in Sessions :
         (rw[s].alloc /\ Terminated(s) /\ Calls(s) /\ call'[s].op \in GatedOps)
           => /\ call'[s].stage = "returned"
              /\ call'[s].err = requestCtx(s).err
              /\ call'[s].err \in {Canceled, DeadlineExceeded}
              /\ call'[s].n = 0
              /\ Untouched]_vars

C1_Witness ==
    \E s \in Sessions :
        /\ rw[s].alloc
        /\ call[s].op = "Write" /\ call[s].buf # <<>> /\ call[s].stage = "returned"
        /\ call[s].err = DeadlineExceeded
        /\ wlog[underlying(s)].calls = 0

\* C2 as claimed: once the lifecycle of a decorator has terminated, its
\* underlying writer receives no WriteMsg, Write or TsigStatus any more, not even
\* for a call that started before the termination.
C2_NoUnderlyingCallAfterTermination ==
    [][\A s \in Sessions :
         (rw[s].alloc /\ Terminated(s))
           => \/ wlog'[underlying(s)].calls = wlog[underlying(s)].calls
              \/ wlog'[underlying(s)].last.op \notin GatedOps]_vars

\* C2 as amended: once the lifecycle has terminated, no gated call that starts
\* afterwards takes the default branch, and the underlying writer receives a
\* gated call only as the completion of a call whose check of the lifecycle
\* found it active (such a call may complete after the termination).
C2_OnlyCheckedCallsReachWriter ==
    [][\A s \in Sessions :
         rw[s].alloc
           => /\ (Terminated(s) /\ call[s].stage # "default")
                    => call'[s].stage # "default"
              /\ (call[s].stage # "default" /\ call'[s].stage = "default")
                    => ~Terminated(s)
              /\ ( /\ wlog'[underlying(s)].calls # wlog[underlying(s)].calls
                   /\ wlog'[underlying(s)].last.op \in GatedOps )
                    => Completes(s) /\ ReceivesOne(underlying(s), call[s].op)]_vars

\* the race: a gated call that passed its check is pending on a lifecycle that
\* has terminated since
C2_Witness ==
    \E s \in Sessions :
        /\ rw[s].alloc
        /\ call[s].stage = "default"
        /\ requestCtx(s).err = DeadlineExceeded

\* C3: the error a gated method returns on a terminated lifecycle tells the
\* cause: context.Canceled when the lifecycle was cancelled before its deadline
\* (its timer never fired), context.DeadlineExceeded when the deadline came first.
C3_ErrorTellsCause ==
    [][\A s \in Sessions :
         (rw[s].alloc /\ Terminated(s) /\ Calls(s) /\ call'[s].op \in GatedOps)
           => call'[s].err = IF requestCtx(s).timer.state = "fired"
                             THEN DeadlineExceeded ELSE Canceled]_vars

C3_Witness ==
    \E s \in Sessions :
        /\ rw[s].alloc
        /\ requestCtx(s).timer.state = "stopped"
        /\ call[s].op = "TsigStatus" /\ call[s].stage = "returned"
        /\ call[s].err = Canceled

\* C4: whatever the state of the lifecycle, a RemoteAddr, LocalAddr,
\* TsigTimersOnly, Hijack or Close makes exactly one call of the same method on
\* the underlying writer, with the flag unchanged, and returns its result.
C4_UngatedDelegate ==
    [][\A s \in Sessions :
         (rw[s].alloc /\ Calls(s) /\ call'[s].op \in UngatedOps)
           => LET w == rw[s].underlying.ref
              IN /\ ReceivesOne(w, call'[s].op)
                 /\ wlog'[w].last.flag = call'[s].flag
                 /\ call'[s].stage = "returned"
                 /\ call'[s].err = wlog'[w].last.err
                 /\ call'[s].addr = wlog'[w].last.addr
                 /\ call'[s].op = "RemoteAddr" => call'[s].addr = remoteAddrOf(w)
                 /\ call'[s].op = "LocalAddr" => call'[s].addr = localAddrOf(w)]_vars

\* a TsigTimersOnly(true) on a decorator whose lifecycle has terminated
C4_Witness ==
    \E s \in Sessions :
        /\ rw[s].alloc /\ Terminated(s)
        /\ call[s].op = "TsigTimersOnly" /\ call[s].flag
        /\ wlog[underlying(s)].calls = 1
        /\ wlog[underlying(s)].last.op = "TsigTimersOnly"
        /\ wlog[underlying(s)].last.flag

\* C5: on an active lifecycle WriteMsg(m) and TsigStatus take the default
\* branch, which calls the same method of the underlying writer exactly once,
\* with the same message, and returns what it returned.
C5_ActiveDelegates ==
    [][\A s \in Sessions :
         rw[s].alloc
           => /\ ( /\ ~Terminated(s) /\ Calls(s)
                   /\ call'[s].op \in {"WriteMsg", "TsigStatus"} )
                    => call'[s].stage = "default" /\ Untouched
              /\ (call[s].stage = "default" /\ call[s].op \in {"WriteMsg", "TsigStatus"})
                    => \/ call'[s] = call[s] /\ wlog'[underlying(s)] = wlog[underlying(s)]
                       \/ /\ Completes(s)
                          /\ ReceivesOne(underlying(s), call[s].op)
                          /\ wlog'[underlying(s)].last.msg = call[s].msg
                          /\ call'[s].err = wlog'[underlying(s)].last.err
                          /\ call'[s].op = call[s].op
                          /\ call'[s].msg = call[s].msg]_vars

C5_Witness ==
    \E s \in Sessions :
        /\ rw[s].alloc
        /\ call[s].op = "WriteMsg" /\ call[s].msg = "m2" /\ call[s].stage = "returned"
        /\ call[s].err = ErrUnderlying
        /\ wlog[underlying(s)].calls = 1
        /\ wlog[underlying(s)].last.msg = "m2"

\* C6: on an active lifecycle Write(b) hands the underlying writer's Write the
\* same bytes b and returns the byte count and error it returns for b.
C6_WriteHandsSameBytes ==
    [][\A s \in Sessions :
         (rw[s].alloc /\ call[s].op = "Write" /\ Completes(s))
           => /\ ReceivesOne(underlying(s), "Write")
              /\ wlog'[underlying(s)].last.buf = call[s].buf
              /\ call'[s].n = wlog'[underlying(s)].last.n
              /\ call'[s].err = wlog'[underlying(s)].last.err]_vars

\* C7: NewHandlerFunc returns ErrInvalidParameter and no adapter when the
\* timeout is zero or negative or the handler is nil, and an adapter and no error
\* otherwise; the call itself serves no request and invokes no handler, and
\* without an adapter no handler is ever invoked.
C7_FactoryValidates ==
    /\ [](factory.called =>
            IF factory.requestTimeout <= 0 \/ Absent(factory.h)
            THEN /\ factory.err = ErrInvalidParameter
                 /\ ~factory.adapter
                 /\ \A s \in Sessions : hcalls[s] = 0 /\ pc[s] = "idle"
            ELSE factory.adapter /\ factory.err = NoErr)
    /\ [][factory' # factory
            => /\ ~factory.called /\ factory'.called
               /\ hcalls' = hcalls /\ pc' = pc /\ rw' = rw /\ ctx' = ctx
               /\ Untouched]_vars

C7_Witness ==
    /\ factory.called
    /\ factory.requestTimeout = 0
    /\ ~Absent(factory.h)
    /\ factory.err = ErrInvalidParameter
    /\ ~factory.adapter

\* C8: NewRespWriter panics and returns no decorator when the context or the
\* writer is nil (the nil interface or a nil pointer), the context being checked
\* first; otherwise it returns a decorator that holds exactly the writer and the
\* context it was given.
C8_ConstructorChecksNil ==
    \A s \in Sessions :
        pc[s] # "idle"
          => IF Absent(args[s].ctx) \/ Absent(args[s].w)
             THEN pc[s] = "panicked" /\ ~rw[s].alloc
             ELSE /\ pc[s] = "direct"
                  /\ rw[s].alloc
                  /\ rw[s].underlying = args[s].w
                  /\ rw[s].requestCtx = args[s].ctx

C8_Witness ==
    \E s \in Sessions :
        /\ pc[s] = "panicked"
        /\ ~Absent(args[s].ctx)
        /\ args[s].w = NilPtr

\* C9: when an adapter invocation has ended, by the return or by a panic of the
\* inner handler (or of NewRespWriter), its lifecycle is terminated; a WriteMsg,
\* Write or TsigStatus made afterwards on the decorator returns a termination
\* error and calls nothing on the underlying writer.
C9_CancelledOnExit ==
    /\ [](\A s \in Sessions : pc[s] \in {"done", "panicked"} => ctx[s].err # NoErr)
    /\ [][\A s \in Sessions :
            ( /\ pc[s] \in {"done", "panicked"} /\ rw[s].alloc
              /\ Calls(s) /\ call'[s].op \in GatedOps )
              => /\ call'[s].stage = "returned"
                 /\ call'[s].err \in {Canceled, DeadlineExceeded}
                 /\ Untouched]_vars

\* the inner handler panicked before the deadline, and a WriteMsg made
\* afterwards on the decorator was rejected
C9_Witness ==
    \E s \in Sessions :
        /\ pc[s] = "panicked" /\ rw[s].alloc
        /\ call[s].op = "WriteMsg" /\ call[s].stage = "returned"
        /\ call[s].err = Canceled
        /\ wlog[underlying(s)].calls = 0

\* C10: in an adapter built with timeout T, a WriteMsg the inner handler makes
\* when more than T has passed since the invocation began returns
\* context.DeadlineExceeded and nothing reaches the writer the server supplied;
\* a WriteMsg it makes while the lifecycle is active is delivered to that writer.
C10_DeadlineInHandler ==
    [][\A s \in Sessions :
         (pc[s] = "running" /\ pc'[s] = "running")
           => /\ (Calls(s) /\ call'[s].op = "WriteMsg" /\ age[s] > factory.requestTimeout)
                    => /\ call'[s].stage = "returned"
                       /\ call'[s].err = DeadlineExceeded
                       /\ Untouched
              /\ (Calls(s) /\ call'[s].op = "WriteMsg" /\ ~Terminated(s))
                    => call'[s].stage = "default"
              /\ (call[s].op = "WriteMsg" /\ call[s].stage = "default" /\ call'[s] # call[s])
                    => /\ ReceivesOne(args[s].w.ref, "WriteMsg")
                       /\ wlog'[args[s].w.ref].last.msg = call[s].msg]_vars

C10_Witness ==
    \E s \in Sessions :
        /\ pc[s] = "running"
        /\ factory.requestTimeout = 2
        /\ age[s] > factory.requestTimeout
        /\ call[s].op = "WriteMsg" /\ call[s].stage = "returned"
        /\ call[s].err = DeadlineExceeded
        /\ wlog[args[s].w.ref].calls = 0

\* C11: every adapter invocation makes its own lifecycle, with the full timeout
\* left from the start of that invocation, and one decorator that holds that
\* lifecycle and the writer the server supplied, and it leaves the lifecycles and
\* decorators of the other requests as they are; a lifecycle terminates only by
\* its own deadline or by the end of its own invocation, so that a WriteMsg,
\* Write or TsigStatus of a request whose lifecycle is active takes the default
\* branch whatever has happened to the other requests.
C11_RequestsAreIndependent ==
    [][\A s \in Sessions :
         /\ (pc[s] = "idle" /\ pc'[s] = "running")
               => /\ ctx'[s] = [err |-> NoErr, timer |-> Running(factory.requestTimeout),
                                cancellable |-> TRUE]
                  /\ rw'[s].alloc
                  /\ rw'[s].requestCtx = PtrTo(s)
                  /\ rw'[s].underlying = args'[s].w
                  /\ hcalls'[s] = 1
                  /\ \A t \in Sessions \ {s} :
                        ctx'[t] = ctx[t] /\ rw'[t] = rw[t] /\ pc'[t] = pc[t]
         /\ (ctx[s].err = NoErr /\ ctx'[s].err # NoErr)
               => \/ pc[s] \in {"idle", "running"} /\ pc'[s] \in {"done", "panicked"}
                  \/ /\ ctx[s].timer.state = "running" /\ ctx[s].timer.left <= 1
                     /\ ctx'[s].err = DeadlineExceeded
                     /\ pc' = pc
         /\ ( /\ rw[s].alloc /\ ctx[s].err = NoErr
              /\ Calls(s) /\ call'[s].op \in GatedOps )
               => call'[s].stage = "default"
         /\ (rw[s].alloc /\ Completes(s))
               => ReceivesOne(args[s].w.ref, call[s].op)]_vars

\* the deadline of request 1 has passed while its handler runs; request 2
\* began afterwards, no time has passed since, and its WriteMsg was delivered
C11_Witness ==
    /\ pc[1] = "running" /\ ctx[1].err = DeadlineExceeded
    /\ pc[2] = "running" /\ ctx[2].timer = Running(factory.requestTimeout)
    /\ rw[2].requestCtx = PtrTo(2)
    /\ call[2].op = "WriteMsg" /\ call[2].stage = "returned" /\ call[2].err = NoErr
    /\ wlog[2].calls = 1 /\ wlog[2].last.op = "WriteMsg"

\* C12: a lifecycle that has terminated stays terminated, with the error of its
\* first termination (a cancel after the deadline leaves DeadlineExceeded, a
\* deadline after the cancel leaves Canceled); once a WriteMsg, Write or
\* TsigStatus of a decorator has returned a termination error, every later
\* WriteMsg, Write or TsigStatus of that decorator returns that same error at
\* once and the underlying writer receives nothing from it.
C12_TerminationIsPermanent ==
    [][\A s \in Sessions :
         /\ ctx[s].err # NoErr => ctx'[s].err = ctx[s].err
         /\ seen[s] # NoneSeen => seen'[s] = seen[s]
         /\ (rw[s].alloc /\ seen[s] # NoneSeen)
               => /\ seen[s].err \in {Canceled, DeadlineExceeded}
                  /\ call'[s].stage # "default"
                  /\ (Calls(s) /\ call'[s].op \in GatedOps)
                        => /\ call'[s].stage = "returned"
                           /\ call'[s].err = seen[s].err
                           /\ call'[s].n = 0
                           /\ Untouched]_vars

\* the first call of the handler was rejected after the deadline; the handler
\* returned (the deferred cancel ran), and a Write made afterwards returned
\* context.DeadlineExceeded again
C12_Witness ==
    \E s \in Sessions :
        /\ pc[s] = "done" /\ rw[s].alloc
        /\ seen[s] = [err |-> DeadlineExceeded, seq |-> 1]
        /\ call[s].seq = 2 /\ call[s].op = "Write" /\ call[s].buf # <<>>
        /\ call[s].stage = "returned" /\ call[s].err = DeadlineExceeded
        /\ wlog[underlying(s)].calls = 0

\* the logger of the last WithLogger entry with a logger in an option list
WithLoggerAt(opt) == {i \in 1..Len(opt) : opt[i].isopt /\ opt[i].l # NilLogger}
LastLogger(opt) ==
    IF WithLoggerAt(opt) = {} THEN NilLogger
    ELSE opt[CHOOSE i \in WithLoggerAt(opt) : \A j \in WithLoggerAt(opt) : j <= i].l

\* C13: the options are applied in the order given, nil options are skipped
\* and WithLogger(nil) changes nothing: the decorator NewRespWriter returns has
\* the logger of the last WithLogger called with a logger, and no logger when
\* the list has none; nothing else of the decorator depends on the options.
C13_LastLoggerWins ==
    [][\A s \in Sessions :
         (~rw[s].alloc /\ rw'[s].alloc)
           => /\ rw'[s].logger = LastLogger(args'[s].opt)
              /\ rw'[s].underlying = args'[s].w
              /\ rw'[s].requestCtx = args'[s].ctx]_vars

\* a WithLogger(nil) after a WithLogger with a logger does not clear it
C13_Witness ==
    \E s \in Sessions :
        /\ rw[s].alloc /\ call[s].seq = 0
        /\ args[s].opt = <<WithLogger("l2"), WithLogger(NilLogger)>>
        /\ rw[s].logger = "l2"

\* C14: Underlying() and RequestContext() return the writer and the context
\* the decorator was constructed with, whatever has been called since; Logger()
\* returns the logger of the construction until SetLogger is called and the
\* argument of the latest SetLogger afterwards (nil clears it); no other
\* operation changes the logger, and none changes the stored writer or context.
C14_AccessorsAndSetLogger ==
    /\ [](\A s \in Sessions :
            rw[s].alloc
              => /\ Underlying(s) = args[s].w
                 /\ RequestContext(s) = args[s].ctx
                 /\ call[s].op = "SetLogger" => Logger(s) = call[s].logger
                 /\ call[s].seq = 0 => Logger(s) = LastLogger(args[s].opt))
    /\ [][\A s \in Sessions :
            rw[s].alloc
              => /\ rw'[s].alloc
                 /\ rw'[s].underlying = rw[s].underlying
                 /\ rw'[s].requestCtx = rw[s].requestCtx
                 /\ (Calls(s) /\ call'[s].op = "SetLogger")
                       => rw'[s].logger = call'[s].logger
                 /\ ~(Calls(s) /\ call'[s].op = "SetLogger")
                       => rw'[s].logger = rw[s].logger]_vars

\* a decorator built with WithLogger("l1") whose logger SetLogger(nil) cleared
\* after the lifecycle had terminated
C14_Witness ==
    \E s \in Sessions :
        /\ rw[s].alloc /\ Terminated(s)
        /\ LastLogger(args[s].opt) = "l1"
        /\ call[s].op = "SetLogger" /\ call[s].logger = NilLogger
        /\ Logger(s) = NilLogger
        /\ Underlying(s) = args[s].w /\ RequestContext(s) = args[s].ctx

\* C15: an underlying writer receives a call only as the delegation of one
\* call of the same method made on a decorator that wraps it: one call at a
\* time, in a step that is the call of an ungated method or the default branch
\* of a gated one; NewHandlerFunc, the start and the end of an adapter
\* invocation, the construction of a decorator, the passing of time, the
\* termination of a lifecycle and SetLogger call nothing on it.
C15_OnlyDelegation ==
    [][\A w \in DOMAIN wlog :
         wlog'[w] # wlog[w]
           => /\ wlog'[w].calls = wlog[w].calls + 1
              /\ \A v \in DOMAIN wlog \ {w} : wlog'[v] = wlog[v]
              /\ factory' = factory /\ pc' = pc /\ ctx' = ctx /\ rw' = rw
              /\ \E s \in Sessions :
                    /\ rw[s].alloc /\ rw[s].underlying.ref = w
                    /\ \/ Completes(s) /\ call'[s].op = call[s].op
                          /\ call[s].op \in GatedOps
                       \/ Calls(s) /\ call'[s].op \in UngatedOps
                          /\ call'[s].seq = call[s].seq + 1
                    /\ wlog'[w].last.op = call'[s].op
                    /\ \A t \in Sessions \ {s} : call'[t] = call[t]]_vars

\* the adapter invocation has ended and the lifecycle is terminated; the one
\* call the writer has received is the WriteMsg the handler made
C15_Witness ==
    \E s \in Sessions :
        /\ pc[s] = "done" /\ rw[s].alloc /\ Terminated(s)
        /\ call[s].seq = 1 /\ call[s].op = "WriteMsg" /\ call[s].err = NoErr
        /\ wlog[underlying(s)].calls = 1
        /\ wlog[underlying(s)].last.op = "WriteMsg"

\* C16 as claimed: every adapter invocation calls the inner handler exactly
\* once.
C16_EveryInvocationCallsHandler ==
    \A s \in Sessions : pc[s] # "idle" => hcalls[s] = 1

\* C16 as amended: an adapter invocation whose NewRespWriter returns calls the
\* inner handler exactly once (with a nil writer NewRespWriter panics and the
\* handler is not called); the invocation ends only in a step in which the
\* handler returns or panics, between two of its calls; the passing of time and
\* the expiry of the deadline leave the invocation running and change nothing
\* but the context.
C16_TimeoutNeverInterrupts ==
    /\ [](\A s \in Sessions :
            hcalls[s] = IF pc[s] = "running" \/ pc[s] = "done" THEN 1
                        ELSE IF pc[s] = "panicked" /\ rw[s].alloc THEN 1 ELSE 0)
    /\ [][\A s \in Sessions :
            /\ (pc[s] = "running" /\ pc'[s] # "running")
                  => /\ pc'[s] \in {"done", "panicked"}
                     /\ call[s].stage = "returned"
                     /\ call' = call /\ hcalls' = hcalls /\ rw' = rw
                     /\ \A t \in Sessions \ {s} : ctx'[t] = ctx[t] /\ pc'[t] = pc[t]
            /\ (ctx[s].timer.state = "running" /\ ctx'[s].timer.state \in {"running", "fired"}
                   /\ ctx'[s] # ctx[s])
                  => /\ pc' = pc /\ hcalls' = hcalls /\ call' = call /\ rw' = rw
                     /\ Untouched]_vars

\* the deadline passed long ago and the handler has not returned: the
\* invocation is still in progress
C16_Witness ==
    \E s \in Sessions :
        /\ pc[s] = "running" /\ hcalls[s] = 1
        /\ ctx[s].err = DeadlineExceeded
        /\ age[s] = MaxAge /\ age[s] > factory.requestTimeout

\* C17: the decorator of every adapter invocation starts with the logger the
\* options given to NewHandlerFunc configure, whatever the handlers of other
\* requests have done before; a SetLogger on the decorator of one request changes
\* neither the decorator of any other request nor the options of the factory, so
\* a decorator on which SetLogger was never called keeps the factory's logger.
C17_LoggerIsRequestLocal ==
    /\ [](\A s \in Sessions :
            (rw[s].alloc /\ call[s].seq = 0) => Logger(s) = LastLogger(factory.opt))
    /\ [][\A s \in Sessions :
            /\ (~rw[s].alloc /\ rw'[s].alloc)
                  => /\ rw'[s].logger = LastLogger(factory.opt)
                     /\ args'[s].opt = factory.opt
            /\ (Calls(s) /\ call'[s].op = "SetLogger")
                  => /\ factory' = factory
                     /\ \A t \in Sessions \ {s} : rw'[t] = rw[t] /\ args'[t] = args[t]]_vars

\* the handler of request 1 replaced its logger; the decorator of request 2,
\* whose handler is running, has the logger of the factory
C17_Witness ==
    /\ factory.opt = <<WithLogger("l1")>>
    /\ rw[1].alloc /\ call[1].op = "SetLogger" /\ call[1].logger = "l2"
    /\ Logger(1) = "l2"
    /\ pc[2] = "running" /\ rw[2].alloc /\ call[2].seq = 0
    /\ Logger(2) = "l1"

====
